---- MODULE Spec2Model ----
(***************************************************************************)
(* json-ledger: applyChanges folds an ordered list of path-addressed       *)
(* changes (set / delete) over a deep clone of a JSON tree.                *)
(*                                                                         *)
(* JavaScript objects have identity, so the model keeps a heap: a sequence *)
(* of containers addressed by their position.  A value is an integer:      *)
(* a positive integer is a reference to a container, 0 is undefined, a     *)
(* negative integer is a JSON primitive.  A string (a key, a path) is the  *)
(* sequence of its characters, so that splitting on '.' is computed.       *)
(***************************************************************************)
EXTENDS Integers, Sequences, FiniteSets, TLC

VARIABLES heap, initialJson, snapshot, changes, flat, applied, newObj, before, pc, result

vars == <<heap, initialJson, snapshot, changes, flat, applied, newObj, before, pc, result>>

(* ------------------------------ values -------------------------------- *)

\* `undefined`: an absent property, an absent change value.
Absent == 0
\* JSON primitives (type JSONValue): null, false, the numbers 0 and 1, the
\* strings '' and 'x'.
NullV == -1
FalseV == -2
ZeroV == -3
EmptyStr == -4
NumV == -5
StrV == -6
\* parseInt's NaN.
NaN == -1

IsContainer(v) == v > 0

\* A JSONObject with the given properties.
Obj(props) == [arr |-> FALSE, len |-> 0, p |-> props]
\* A JSONArray of the given length; its elements are the properties named by
\* the canonical index keys below len, an index without a property is a hole.
Arr(n, props) == [arr |-> TRUE, len |-> n, p |-> props]

NoProps == [k \in {} |-> Absent]

\* Array.isArray
IsArray(h, v) == IsContainer(v) /\ h[v].arr

(* ------------------------------ strings ------------------------------- *)

Digits == <<"0", "1", "2", "3", "4", "5", "6", "7", "8", "9">>

IsDigit(c) == \E d \in 1..10 : Digits[d] = c

DigitVal(c) == (CHOOSE d \in 1..10 : Digits[d] = c) - 1

\* The number a sequence of digits denotes.
RECURSIVE ToNum(_)
ToNum(s) ==
    IF s = <<>> THEN 0
    ELSE 10 * ToNum(SubSeq(s, 1, Len(s) - 1)) + DigitVal(s[Len(s)])

\* isIndex of es-toolkit: /^(?:0|[1-9]\d*)$/ ; also what makes a property key
\* of an Array an element index.
isIndex(k) ==
    /\ Len(k) >= 1
    /\ \A n \in 1..Len(k) : IsDigit(k[n])
    /\ (Len(k) = 1 \/ k[1] # "0")

\* The length of a primitive string.
StrLen(v) == IF v = StrV THEN 1 ELSE 0

\* The longest prefix of s made of digits.
RECURSIVE DigitPrefix(_)
DigitPrefix(s) ==
    IF s = <<>> \/ ~IsDigit(s[1]) THEN <<>>
    ELSE <<s[1]>> \o DigitPrefix(Tail(s))

\* parseInt(s, 10) on a string without sign or white space: the leading
\* digits, NaN when there is none.
parseInt(s) == IF DigitPrefix(s) = <<>> THEN NaN ELSE ToNum(DigitPrefix(s))

\* String.prototype.split('.')
RECURSIVE split(_)
split(s) ==
    IF \A n \in 1..Len(s) : s[n] # "."
    THEN <<s>>
    ELSE LET d == CHOOSE n \in 1..Len(s) :
                     s[n] = "." /\ \A m \in 1..(n - 1) : s[m] # "."
         IN <<SubSeq(s, 1, d - 1)>> \o split(SubSeq(s, d + 1, Len(s)))

\* toPath of es-toolkit on a string without brackets or quotes: a leading
\* dot gives an empty first segment, every other empty segment is dropped.
RECURSIVE ToPathFrom(_, _)
ToPathFrom(s, key) ==
    IF s = <<>> THEN (IF key # <<>> THEN <<key>> ELSE <<>>)
    ELSE IF s[1] = "."
         THEN (IF key # <<>> THEN <<key>> ELSE <<>>) \o ToPathFrom(Tail(s), <<>>)
         ELSE ToPathFrom(Tail(s), Append(key, s[1]))

toPath(s) ==
    IF s = <<>> THEN <<>>
    ELSE IF s[1] = "." THEN <<(<<>>)>> \o ToPathFrom(Tail(s), <<>>)
    ELSE ToPathFrom(s, <<>>)

\* isDeepKey of es-toolkit: the string holds a '.', a '[' or a ']'.
isDeepKey(s) == \E n \in 1..Len(s) : s[n] \in {".", "[", "]"}

(* ------------------------------- paths -------------------------------- *)

\* type Path = string | ReadonlyArray<string>; "undef" is the `path` read
\* from a value that has no such property.
StrPath(s) == [kind |-> "str", str |-> s, segs |-> <<>>]
ArrPath(ss) == [kind |-> "arr", str |-> <<>>, segs |-> ss]
UndefPath == [kind |-> "undef", str |-> <<>>, segs |-> <<>>]

\* JavaScript's !path: undefined and the empty string are falsy, an array
\* (even an empty one) is truthy.
Falsy(path) == path.kind = "undef" \/ (path.kind = "str" /\ path.str = <<>>)

(* ---------------------------- property access ------------------------- *)

\* Object.hasOwn(v, k) for v not null or undefined: a container's own
\* properties, a primitive string's character indices.
hasOwn(h, v, k) ==
    IF IsContainer(v) THEN k \in DOMAIN h[v].p
    ELSE IF v \in {StrV, EmptyStr} THEN isIndex(k) /\ ToNum(k) < StrLen(v)
    ELSE FALSE

\* v[k] for v not null or undefined; the one string with a character is 'x',
\* whose character is 'x'.
GetProp(h, v, k) ==
    IF hasOwn(h, v, k)
    THEN (IF IsContainer(v) THEN h[v].p[k] ELSE StrV)
    ELSE Absent

\* v == null
IsNullish(v) == v = Absent \/ v = NullV

\* getWithPath of es-toolkit/compat get, for a path given as an array: the
\* segments are used as they are.
RECURSIVE getWithPath(_, _, _)
getWithPath(h, obj, segs) ==
    IF segs = <<>> THEN obj
    ELSE IF IsNullish(obj) THEN Absent
    ELSE getWithPath(h, GetProp(h, obj, segs[1]), Tail(segs))

\* get of es-toolkit/compat: a string is first read as one key, and as a
\* deep path only when that key holds nothing.
get(h, obj, path) ==
    IF path.kind = "arr"
    THEN (IF path.segs = <<>> THEN Absent ELSE getWithPath(h, obj, path.segs))
    ELSE IF path.kind = "undef" THEN Absent
    ELSE LET direct == GetProp(h, obj, path.str)
         IN IF direct # Absent THEN direct
            ELSE IF isDeepKey(path.str)
                 THEN (IF toPath(path.str) = <<>> THEN Absent
                       ELSE getWithPath(h, obj, toPath(path.str)))
                 ELSE Absent

\* The walk of es-toolkit/compat has: every segment is an own property of
\* the value reached so far, or an index below the length of an array (a
\* hole).
RECURSIVE HasWalk(_, _, _)
HasWalk(h, current, segs) ==
    IF segs = <<>> THEN TRUE
    ELSE IF IsNullish(current) \/ ~hasOwn(h, current, segs[1])
         THEN /\ IsArray(h, current)
              /\ isIndex(segs[1])
              /\ ToNum(segs[1]) < h[current].len
              /\ HasWalk(h, Absent, Tail(segs))
         ELSE HasWalk(h, GetProp(h, current, segs[1]), Tail(segs))

\* The path has resolves: an array as it is; a deep string key split by
\* toPath unless the object holds the whole string as a key with a value;
\* any other string as one key.
HasPath(h, obj, path) ==
    IF path.kind = "arr" THEN path.segs
    ELSE IF isDeepKey(path.str) /\ IsNullish(GetProp(h, obj, path.str))
         THEN toPath(path.str)
         ELSE <<path.str>>

\* has of es-toolkit/compat.
has(h, obj, path) ==
    /\ HasPath(h, obj, path) # <<>>
    /\ HasWalk(h, obj, HasPath(h, obj, path))

(* ---------------------------- es-toolkit set -------------------------- *)

\* isKey of es-toolkit/compat for a string: a string without '.' is one key,
\* and so is any string the object holds as an own key.
isKey(h, obj, path) ==
    /\ path.kind = "str"
    /\ (~isDeepKey(path.str) \/ hasOwn(h, obj, path.str))

\* The path set resolves.
SetPath(h, obj, path) ==
    IF isKey(h, obj, path) THEN <<path.str>>
    ELSE IF path.kind = "arr" THEN path.segs
    ELSE toPath(path.str)

\* a[k] = v on a container: writing an index at or past the length of an
\* array extends the array.
AssignProp(h, a, k, v) ==
    LET c == h[a]
        grown == IF c.arr /\ isIndex(k) /\ ToNum(k) >= c.len
                 THEN ToNum(k) + 1 ELSE c.len
    IN [h EXCEPT ![a] =
          [arr |-> c.arr, len |-> grown,
           p |-> [x \in DOMAIN c.p \cup {k} |-> IF x = k THEN v ELSE c.p[x]]]]

\* The loop of updateWith behind set: an intermediate segment that holds no
\* object is given a new one, an array when the next segment is an index;
\* the last segment is assigned the value itself (no copy is made).
RECURSIVE SetWalk(_, _, _, _)
SetWalk(h, current, segs, value) ==
    IF segs = <<>> THEN h
    ELSE IF Len(segs) = 1 THEN AssignProp(h, current, segs[1], value)
    ELSE LET objValue == GetProp(h, current, segs[1])
         IN IF IsContainer(objValue)
            THEN SetWalk(h, objValue, Tail(segs), value)
            ELSE LET fresh == Len(h) + 1
                     made == IF isIndex(segs[2]) THEN Arr(0, NoProps)
                             ELSE Obj(NoProps)
                 IN SetWalk(AssignProp(Append(h, made), current, segs[1], fresh),
                            fresh, Tail(segs), value)

\* set of es-toolkit/compat: the heap after set(obj, path, value).
set(h, obj, path, value) == SetWalk(h, obj, SetPath(h, obj, path), value)

(* --------------------------- es-toolkit cloneDeep --------------------- *)

\* The containers a value holds directly.
Children(h, a) == {h[a].p[k] : k \in DOMAIN h[a].p} \cap (1..Len(h))

\* The containers reachable from a set of containers.
RECURSIVE ReachFrom(_, _)
ReachFrom(h, seen) ==
    LET next == seen \cup UNION {Children(h, a) : a \in seen}
    IN IF next = seen THEN seen ELSE ReachFrom(h, next)

\* The containers reachable from a value, itself included.
Reach(h, v) == IF IsContainer(v) THEN ReachFrom(h, {v}) ELSE {}

\* cloneDeep of es-toolkit: every container reachable from the value is
\* copied once into a new container (an array by its elements, an object by
\* its own keys); primitives are copied by value.
cloneDeep(h, v) ==
    LET R == Reach(h, v)
        fresh(a) == Len(h) + 1 + Cardinality({x \in R : x < a})
        orig(n) == CHOOSE a \in R : fresh(a) = n
        copy(a) ==
            LET c == h[a]
                keys == IF c.arr THEN {k \in DOMAIN c.p : isIndex(k)}
                        ELSE DOMAIN c.p
            IN [arr |-> c.arr, len |-> c.len,
                p |-> [k \in keys |->
                         IF IsContainer(c.p[k]) THEN fresh(c.p[k]) ELSE c.p[k]]]
    IN [heap |-> [n \in 1..(Len(h) + Cardinality(R)) |->
                    IF n <= Len(h) THEN h[n] ELSE copy(orig(n))],
        root |-> IF IsContainer(v) THEN fresh(v) ELSE v]

(* ------------------------------- deletion ----------------------------- *)

\* The decimal digits of a natural number: the key of an array index.
RECURSIVE NumToKey(_)
NumToKey(n) ==
    IF n < 10 THEN <<Digits[n + 1]>>
    ELSE Append(NumToKey(n \div 10), Digits[(n % 10) + 1])

\* arr.splice(index, 1) for index >= 0: the element (or hole) at index is
\* removed and every later one moves down by one; nothing happens at or
\* past the length.  Properties that are not indices stay.
splice(c, index) ==
    IF index >= c.len THEN c
    ELSE LET kept == {k \in DOMAIN c.p : ~isIndex(k) \/ ToNum(k) < index}
             moved == {k \in DOMAIN c.p : isIndex(k) /\ ToNum(k) > index}
         IN [arr |-> TRUE, len |-> c.len - 1,
             p |-> [k \in kept \cup {NumToKey(ToNum(m) - 1) : m \in moved} |->
                      IF k \in kept THEN c.p[k]
                      ELSE c.p[NumToKey(ToNum(k) + 1)]]]

\* deleteArrayElement with `delete arr[index]` for the splice: the element
\* goes and nothing moves.
deleteArrayElementNoShift(h, arr, lastPathSegment) ==
    LET index == parseInt(lastPathSegment)
    IN IF index = NaN THEN h
       ELSE [h EXCEPT ![arr].p =
               [k \in DOMAIN h[arr].p \ {NumToKey(index)} |-> h[arr].p[k]]]

\* deleteArrayElement: the heap after it.
deleteArrayElement(h, arr, lastPathSegment) ==
    LET index == parseInt(lastPathSegment)
    IN IF index = NaN THEN h
       ELSE [h EXCEPT ![arr] = splice(h[arr], index)]

\* const pathArray = typeof path === 'string' ? path.split('.') : path
PathArray(path) == IF path.kind = "str" THEN split(path.str) ELSE path.segs

\* const lastPathSegment = pathArray[pathArray.length - 1]
LastPathSegment(path) == PathArray(path)[Len(PathArray(path))]

\* const targetObj = pathArray.length === 1 ? obj : get(obj, pathArray.slice(0, -1))
TargetObj(h, obj, path) ==
    IF Len(PathArray(path)) = 1 THEN obj
    ELSE getWithPath(h, obj, SubSeq(PathArray(path), 1, Len(PathArray(path)) - 1))

\* delete targetObj[key] in strict code: a TypeError on null or undefined
\* and on a character of a primitive string;  nothing on any other
\* primitive;  the own key removed from a container.
DeleteProp(h, targetObj, key) ==
    IF IsNullish(targetObj) THEN [heap |-> h, thrown |-> TRUE]
    ELSE IF ~IsContainer(targetObj)
         THEN [heap |-> h, thrown |-> hasOwn(h, targetObj, key)]
    ELSE [heap |-> [h EXCEPT ![targetObj].p =
                      [k \in DOMAIN h[targetObj].p \ {key} |-> h[targetObj].p[k]]],
          thrown |-> FALSE]

\* deletePropertyPath that takes a last segment that looks like an index
\* for an index, whatever the parent is.
deletePropertyPathByIndex(h, obj, path) ==
    IF Falsy(path) \/ ~has(h, obj, path) THEN [heap |-> h, thrown |-> FALSE]
    ELSE IF IsArray(h, TargetObj(h, obj, path))
            \/ (IsContainer(TargetObj(h, obj, path))
                  /\ isIndex(LastPathSegment(path)))
         THEN [heap |-> deleteArrayElement(h, TargetObj(h, obj, path),
                                           LastPathSegment(path)),
               thrown |-> FALSE]
         ELSE DeleteProp(h, TargetObj(h, obj, path), LastPathSegment(path))

\* deletePropertyPath: the heap after it, and whether it threw.  obj is a
\* container, so !obj is false.
deletePropertyPath(h, obj, path) ==
    IF Falsy(path) \/ ~has(h, obj, path) THEN [heap |-> h, thrown |-> FALSE]
    ELSE IF IsArray(h, TargetObj(h, obj, path))
         THEN [heap |-> deleteArrayElement(h, TargetObj(h, obj, path),
                                           LastPathSegment(path)),
               thrown |-> FALSE]
         ELSE DeleteProp(h, TargetObj(h, obj, path), LastPathSegment(path))

(* ------------------------------- changes ------------------------------ *)

\* What applyChanges is handed after initialJson: a Change {path, value}, or
\* an array of such things.  Reading .path or .value of an array gives
\* undefined.
Change(path, value) == [isArr |-> FALSE, elems |-> <<>>, path |-> path, value |-> value]
List(elems) == [isArr |-> TRUE, elems |-> elems, path |-> UndefPath, value |-> Absent]

\* A test of the value with == null for === undefined.
IsDeleteLoose(change) == IsNullish(change.value)

\* change.value === undefined
IsDelete(change) == change.value = Absent

\* applyChangeMutate that sets only a path that exists already.
applyChangeMutateExisting(h, obj, change) ==
    IF IsDelete(change)
    THEN deletePropertyPath(h, obj, change.path)
    ELSE [heap |-> IF has(h, obj, change.path)
                   THEN set(h, obj, change.path, change.value) ELSE h,
          thrown |-> FALSE]

\* applyChangeMutate: the heap after it, and whether it threw.
applyChangeMutate(h, obj, change) ==
    IF IsDelete(change)
    THEN deletePropertyPath(h, obj, change.path)
    ELSE [heap |-> set(h, obj, change.path, change.value), thrown |-> FALSE]

\* Array.prototype.flat(depth) on the array `items`.
RECURSIVE flat_(_, _)
flat_(items, depth) ==
    IF items = <<>> THEN <<>>
    ELSE (IF items[1].isArr /\ depth >= 1
          THEN flat_(items[1].elems, depth - 1)
          ELSE <<items[1]>>) \o flat_(Tail(items), depth)

\* [changes].flat(1): the arguments as they are.
FlattenOnce(args) == flat_(<<List(args)>>, 1)

\* [changes].flat(2)
Flatten(args) == flat_(<<List(args)>>, 2)

\* A reduce started from the input itself, not from a clone of it.
InitialAccumulatorNoClone(h, json) == [heap |-> h, root |-> json]

\* The accumulator reduce starts from: cloneDeep(initialJson).
InitialAccumulator(h, json) == cloneDeep(h, json)

\* The change the next call of the reducer is handed.
NextChange(list, n) == list[n + 1]

(* ---------------------------- bounded inputs -------------------------- *)

\* The longest list of changes one call is handed.
MaxChanges == 2

KA == <<"a">>
KB == <<"b">>
K0 == <<"0">>
K1 == <<"1">>
K2 == <<"2">>
KAB == <<"a", ".", "b">>
KB1A == <<"b", ".", "1", "a">>

\* The heaps a call starts from; the input tree is rooted at container 1:
\*   { a: { b: 1 }, b: ['x', 0] }
\*   [ [0, 1], null, 'x' ]
\*   { 'a.b': 1, b: 'x' }   and a caller's own {} (container 2)
\*   {}                     and a caller's own [1] (container 2)
\*   { 'b.1a': 1, b: [0, 1] }
\*   { '0': 1, '1': 'x', a: { '0': 0, '1': 1 } }
Worlds ==
    { <<Obj(KA :> 2 @@ KB :> 3), Obj(KB :> NumV), Arr(2, K0 :> StrV @@ K1 :> ZeroV)>>,
      <<Arr(3, K0 :> 2 @@ K1 :> NullV @@ K2 :> StrV), Arr(2, K0 :> ZeroV @@ K1 :> NumV)>>,
      <<Obj(KAB :> NumV @@ KB :> StrV), Obj(NoProps)>>,
      <<Obj(NoProps), Arr(1, K0 :> NumV)>>,
      <<Obj(KB1A :> NumV @@ KB :> 2), Arr(2, K0 :> ZeroV @@ K1 :> NumV)>>,
      <<Obj(K0 :> NumV @@ K1 :> StrV @@ KA :> 2), Obj(K0 :> ZeroV @@ K1 :> NumV)>> }

\* The changes a caller passes.  The container value is container 2: a
\* subtree of the input in the first two worlds and the last two, the
\* caller's own in the others.
Sets ==
    { Change(StrPath(KA), NumV),
      Change(StrPath(KA), NullV),
      Change(StrPath(KB), 2),
      Change(StrPath(<<"b", ".", "a", ".", "0">>), FalseV),
      Change(StrPath(KAB), ZeroV),
      Change(ArrPath(<<KAB>>), NumV),
      Change(StrPath(K0), EmptyStr) }

Deletes ==
    { Change(StrPath(<<>>), Absent),
      Change(StrPath(KA), Absent),
      Change(StrPath(KAB), Absent),
      Change(StrPath(<<"a", ".", "0">>), Absent),
      Change(StrPath(<<"b", ".", "0">>), Absent),
      Change(StrPath(K0), Absent),
      Change(StrPath(KB1A), Absent),
      Change(StrPath(<<"a", ".", "a", ".", "b">>), Absent),
      Change(ArrPath(<<KA, KB>>), Absent) }

Changes == Sets \cup Deletes

ChangeLists == UNION {[1..n -> Changes] : n \in 0..MaxChanges}

\* The ways the caller groups a list of changes into arguments: one by one,
\* as one array, the first alone and the rest as an array, and as an array
\* inside an array (one level more than the signature allows).
Modes == {"each", "array", "mixed", "nested"}

Group(list, mode) ==
    CASE mode = "each" -> list
      [] mode = "array" -> <<List(list)>>
      [] mode = "mixed" -> IF list = <<>> THEN <<List(<<>>)>>
                           ELSE <<list[1], List(Tail(list))>>
      [] mode = "nested" -> <<List(<<List(list)>>)>>

(* ---------------------------- state machine --------------------------- *)

Init ==
    /\ heap \in Worlds
    /\ initialJson = 1
    /\ snapshot = heap
    /\ changes = <<>>
    /\ flat = <<>>
    /\ applied = 0
    /\ newObj = Absent
    /\ before = heap
    /\ pc = "idle"
    /\ result = Absent

\* applyChanges(initialJson, ...changes) up to the first call of the
\* reducer: the arguments are flattened and the input is cloned.
Call(list, mode) ==
    /\ pc = "idle"
    /\ changes' = Group(list, mode)
    /\ flat' = Flatten(Group(list, mode))
    /\ snapshot' = heap
    /\ heap' = InitialAccumulator(heap, initialJson).heap
    /\ newObj' = InitialAccumulator(heap, initialJson).root
    /\ before' = InitialAccumulator(heap, initialJson).heap
    /\ applied' = 0
    /\ pc' = "reduce"
    /\ UNCHANGED <<initialJson, result>>

\* One call of the reducer (newObj, change) => applyChangeMutate(newObj,
\* change); a TypeError ends applyChanges.
Reduce ==
    /\ pc = "reduce"
    /\ applied < Len(flat)
    /\ LET r == applyChangeMutate(heap, newObj, NextChange(flat, applied))
       IN /\ heap' = r.heap
          /\ pc' = IF r.thrown THEN "thrown" ELSE "reduce"
    /\ before' = heap
    /\ applied' = applied + 1
    /\ UNCHANGED <<initialJson, snapshot, changes, flat, newObj, result>>

\* reduce is through the list: applyChanges returns the accumulator.
Return ==
    /\ pc = "reduce"
    /\ applied = Len(flat)
    /\ result' = newObj
    /\ pc' = "done"
    /\ UNCHANGED <<heap, initialJson, snapshot, changes, flat, applied, newObj, before>>

Next ==
    \/ pc = "idle" /\ \E list \in ChangeLists, mode \in Modes : Call(list, mode)
    \/ Reduce
    \/ Return

Spec == Init /\ [][Next]_vars

(* -------------------------- reading a run ----------------------------- *)

\* The change the reducer was last handed.
LastChange == flat[applied]

\* The reducer has been called at least once.
Stepped == pc # "idle" /\ applied >= 1

\* Deep equality of two JSON values, each in its own heap: equal primitives,
\* or containers of the same kind, length and keys whose values are deep
\* equal.
RECURSIVE DeepEqualTo(_, _, _, _, _)
DeepEqualTo(h1, v1, h2, v2, d) ==
    IF ~IsContainer(v1) \/ ~IsContainer(v2) THEN v1 = v2
    ELSE IF d = 0 THEN TRUE
    ELSE /\ h1[v1].arr = h2[v2].arr
         /\ h1[v1].len = h2[v2].len
         /\ DOMAIN h1[v1].p = DOMAIN h2[v2].p
         /\ \A k \in DOMAIN h1[v1].p :
               DeepEqualTo(h1, h1[v1].p[k], h2, h2[v2].p[k], d - 1)

DeepEqual(h1, v1, h2, v2) == DeepEqualTo(h1, v1, h2, v2, Len(h1) + 1)

\* reduce over a list of changes, from a heap and its accumulator; a
\* TypeError ends it.
RECURSIVE Fold(_, _, _)
Fold(r, obj, list) ==
    IF list = <<>> \/ r.thrown THEN r
    ELSE Fold(applyChangeMutate(r.heap, obj, list[1]), obj, Tail(list))

\* applyChanges(json, ...args) as a whole, from heap h: the final heap, the
\* returned root, and whether it threw.
ApplyChangesResult(h, json, args) ==
    LET acc == InitialAccumulator(h, json)
        r == Fold([heap |-> acc.heap, thrown |-> FALSE], acc.root, Flatten(args))
    IN [heap |-> r.heap, root |-> acc.root, thrown |-> r.thrown]

(* ------------------------------- claims ------------------------------- *)

\* C1 (non-mutation): once applyChanges has returned, the input tree is deep
\* equal to the snapshot of it taken before the call.
C1_NonMutation ==
    pc = "done" => DeepEqual(heap, initialJson, snapshot, initialJson)

\* C2 (identity): no container reachable from the result of applyChanges is
\* a container reachable from the input tree.
C2_Identity ==
    pc = "done" => Reach(heap, result) \cap Reach(snapshot, initialJson) = {}

\* C6 (no raised errors): applyChanges never throws, and deletePropertyPath
\* never gets to `delete targetObj[lastPathSegment]` with a parent, found by
\* splitting the path, that is absent or a primitive.
C6_NoRaisedErrors ==
    /\ pc # "thrown"
    /\ (Stepped /\ LastChange.value = Absent /\ ~Falsy(LastChange.path)
          /\ has(before, newObj, LastChange.path))
       => IsContainer(TargetObj(before, newObj, LastChange.path))

\* The arguments hold no change: there are none, or only empty arrays.
NoChanges == \A n \in 1..Len(changes) : changes[n].isArr /\ changes[n].elems = <<>>

\* C8 (empty change list): called with no changes, or only empty lists of
\* changes, applyChanges returns a tree deep equal to the input and sharing
\* no container with it.
C8_EmptyChangeList ==
    (pc = "done" /\ NoChanges) =>
        /\ DeepEqual(heap, result, snapshot, initialJson)
        /\ result # initialJson
        /\ Reach(heap, result) \cap Reach(snapshot, initialJson) = {}

\* C8's case: a call handed one empty array has returned.
C8_Witness == pc = "done" /\ changes = <<List(<<>>)>> /\ IsContainer(result)

\* The reducer was last handed a delete whose path is a path (not the
\* undefined path of an array taken for a change).
DeleteStepped == Stepped /\ LastChange.value = Absent /\ LastChange.path.kind # "undef"

\* The two changes the reducer was handed last address the same path.
SamePathTwice ==
    /\ Stepped /\ applied >= 2
    /\ ~flat[applied - 1].isArr /\ ~flat[applied].isArr
    /\ flat[applied - 1].path = flat[applied].path

\* C3 (order): the changes are applied in the order given, each to the tree
\* the earlier ones produced; of two sets of one path the later value
\* stays, a delete then a set leaves the set value, and a set then a delete
\* leaves the slot absent.
C3_Order ==
    /\ pc \in {"reduce", "done"} =>
          heap = Fold([heap |-> InitialAccumulator(snapshot, initialJson).heap,
                       thrown |-> FALSE],
                      newObj, SubSeq(flat, 1, applied)).heap
    /\ (SamePathTwice /\ ~LastChange.value = Absent) =>
          get(heap, newObj, LastChange.path) = LastChange.value
    /\ (SamePathTwice /\ ~flat[applied - 1].value = Absent /\ LastChange.value = Absent) =>
          /\ pc # "thrown"
          /\ get(heap, newObj, LastChange.path) = Absent

\* The delete last applied passed the existence check, its parent (found by
\* splitting the path) is a sequence and its last segment is an index that
\* the sequence holds.
ResolvesToIndex ==
    /\ DeleteStepped
    /\ ~Falsy(LastChange.path)
    /\ has(before, newObj, LastChange.path)
    /\ IsArray(before, TargetObj(before, newObj, LastChange.path))
    /\ isIndex(LastPathSegment(LastChange.path))
    /\ hasOwn(before, TargetObj(before, newObj, LastChange.path),
              LastPathSegment(LastChange.path))

\* The element of a sequence at an index (undefined for a hole).
Elem(c, n) == IF NumToKey(n) \in DOMAIN c.p THEN c.p[NumToKey(n)] ELSE Absent

RECURSIVE NonResolvingFrom(_, _, _)
NonResolvingFrom(h, cur, segs) ==
    IF Len(segs) = 1
    THEN /\ ~hasOwn(h, cur, segs[1])
         /\ h[cur].arr => (~isIndex(segs[1]) \/ ToNum(segs[1]) >= h[cur].len)
    ELSE \/ ~IsContainer(GetProp(h, cur, segs[1]))
         \/ NonResolvingFrom(h, GetProp(h, cur, segs[1]), Tail(segs))

\* The path is the empty string, or its segments (a string split on '.')
\* do not resolve.
NonResolving(h, obj, path) ==
    \/ path.kind = "str" /\ path.str = <<>>
    \/ /\ PathArray(path) # <<>>
       /\ NonResolvingFrom(h, obj, PathArray(path))

\* C5 (delete of a non-resolving path): such a delete leaves the working
\* tree deep equal to what it was before the change.
C5_DeleteNoOp ==
    (DeleteStepped /\ NonResolving(before, newObj, LastChange.path)) =>
        DeepEqual(heap, newObj, before, newObj)

\* The reducer was last handed a set: a change with a value and a path that
\* is not empty.
SetStepped ==
    /\ Stepped /\ ~LastChange.isArr /\ ~LastChange.value = Absent
    /\ IF LastChange.path.kind = "str" THEN LastChange.path.str # <<>>
       ELSE LastChange.path.segs # <<>>

\* C7 (set then get): after a set the path resolves to exactly the value of
\* the change, and every proper prefix of the path set walked holds a
\* container, whether it did before or not.
C7_SetThenGet ==
    SetStepped =>
        LET segs == SetPath(before, newObj, LastChange.path)
        IN /\ pc # "thrown"
           /\ get(heap, newObj, LastChange.path) = LastChange.value
           /\ \A n \in 1..(Len(segs) - 1) :
                 IsContainer(getWithPath(heap, newObj, SubSeq(segs, 1, n)))

\* C7's case: a set through a first segment that held no container has
\* made the containers on its way, and the path now gives the value.
C7_Witness ==
    /\ SetStepped
    /\ Len(SetPath(before, newObj, LastChange.path)) = 3
    /\ ~IsContainer(GetProp(before, newObj, SetPath(before, newObj, LastChange.path)[1]))
    /\ get(heap, newObj, LastChange.path) = LastChange.value
    /\ Len(heap) = Len(before) + 2

\* The same changes passed one by one: each array argument is replaced by
\* its elements, in place.
RECURSIVE Individually(_)
Individually(args) ==
    IF args = <<>> THEN <<>>
    ELSE (IF args[1].isArr THEN args[1].elems ELSE <<args[1]>>)
         \o Individually(Tail(args))

\* Every argument is a change record or an array of change records.
OneLevel(args) ==
    \A n \in 1..Len(args) :
        args[n].isArr => \A m \in 1..Len(args[n].elems) : ~args[n].elems[m].isArr

\* C9 (flattening): the list the reducer runs over is the arguments with
\* exactly one level of arrays removed; and for arguments that are change
\* records or arrays of them, the call ends as the call with the same
\* changes passed one by one ends: it throws if that one does, and returns
\* a deep equal tree otherwise.
C9_Flattening ==
    /\ pc # "idle" => flat = Individually(changes)
    /\ (pc \in {"done", "thrown"} /\ OneLevel(changes)) =>
          LET one == ApplyChangesResult(snapshot, initialJson, Individually(changes))
          IN /\ one.thrown = (pc = "thrown")
             /\ pc = "done" => DeepEqual(heap, result, one.heap, one.root)

\* C9's case: a call handed a change and then an array of changes has
\* returned a tree that its last change altered.
C9_Witness ==
    /\ pc = "done"
    /\ Len(changes) = 2 /\ ~changes[1].isArr /\ changes[2].isArr
    /\ changes[2].elems # <<>>
    /\ applied = 2
    /\ ~DeepEqual(heap, result, before, result)

\* The size of a container: its own properties and its length.
Size(h, n) == Cardinality(DOMAIN h[n].p) + h[n].len

\* C10 (set versus delete): a change with an absent value acts as a delete:
\* it makes no container and adds to none; a change with any other value,
\* null, false, 0 and '' included, is a set: afterwards the slot exists in
\* its parent container and the path gives that value.
C10_Dispatch ==
    /\ DeleteStepped =>
          /\ Len(heap) = Len(before)
          /\ \A a \in 1..Len(before) : Size(heap, a) <= Size(before, a)
    /\ SetStepped =>
          LET segs == SetPath(before, newObj, LastChange.path)
              parent == getWithPath(heap, newObj, SubSeq(segs, 1, Len(segs) - 1))
          IN /\ IsContainer(parent)
             /\ hasOwn(heap, parent, segs[Len(segs)])
             /\ heap[parent].p[segs[Len(segs)]] = LastChange.value
             /\ get(heap, newObj, LastChange.path) = LastChange.value

\* C10's case: a change with the value null has been applied to a slot that
\* held something else, and the slot now holds null.
C10_Witness ==
    /\ SetStepped
    /\ LastChange.value = NullV
    /\ get(before, newObj, LastChange.path) \notin {Absent, NullV}
    /\ get(heap, newObj, LastChange.path) = NullV
    /\ has(heap, newObj, LastChange.path)

\* The delete last applied passed the existence check, its parent (found by
\* splitting the path) is a mapping and its last segment is a key that the
\* mapping holds.
ResolvesToKey ==
    /\ DeleteStepped
    /\ ~Falsy(LastChange.path)
    /\ has(before, newObj, LastChange.path)
    /\ IsContainer(TargetObj(before, newObj, LastChange.path))
    /\ ~IsArray(before, TargetObj(before, newObj, LastChange.path))
    /\ hasOwn(before, TargetObj(before, newObj, LastChange.path),
              LastPathSegment(LastChange.path))

\* C11 (mapping delete): a delete that resolves to an existing key of a
\* mapping does not throw, removes exactly that key from the mapping, keeps
\* every other key of it under its own name with its value (also when the
\* key removed looks like an index: nothing moves down), and changes
\* nothing else in the heap.
C11_MappingDelete ==
    ResolvesToKey =>
        LET t == TargetObj(before, newObj, LastChange.path)
            k == LastPathSegment(LastChange.path)
        IN /\ pc # "thrown"
           /\ ~heap[t].arr
           /\ heap[t].len = before[t].len
           /\ DOMAIN heap[t].p = DOMAIN before[t].p \ {k}
           /\ \A x \in DOMAIN heap[t].p : heap[t].p[x] = before[t].p[x]
           /\ has(before, newObj, ArrPath(PathArray(LastChange.path)))
                 => ~has(heap, newObj, ArrPath(PathArray(LastChange.path)))
           /\ Len(heap) = Len(before)
           /\ \A a \in 1..Len(before) : a # t => heap[a] = before[a]

\* C11's case: the key '0' has been deleted from a nested mapping that also
\* holds the key '1', and '1' is still there with the value it had.
C11_Witness ==
    /\ ResolvesToKey
    /\ Len(PathArray(LastChange.path)) = 2
    /\ LastPathSegment(LastChange.path) = K0
    /\ LET t == TargetObj(before, newObj, LastChange.path)
       IN /\ K1 \in DOMAIN before[t].p
          /\ K0 \notin DOMAIN heap[t].p
          /\ K1 \in DOMAIN heap[t].p
          /\ heap[t].p[K1] = before[t].p[K1]
          /\ heap[t].p[K1] # before[t].p[K0]
====
